---- MODULE Spec2Model ----
(***************************************************************************)
(* A model of PumpFunBot (src/trading_bot.py): the virtual ledger          *)
(* (simulate_trade, print_stats), the market-state handlers driven by the  *)
(* websocket thread (on_message), the legitimacy check                     *)
(* (examine_token_contract), the analysis cache (should_analyze_token) and *)
(* the decision loop (run).                                                *)
(*                                                                         *)
(* Units.  Quantities and prices are counted in tenths (position_size 0.1  *)
(* is 1, a price or market cap of 0.1 SOL is 1), so quantity * price and   *)
(* virtual_balance are counted in hundredths of a SOL (the starting        *)
(* balance of 1 SOL is 100).  Time is counted in seconds.                  *)
(*                                                                         *)
(* Threads.  "ws" is the websocket thread started by run (on_message and   *)
(* everything it calls), "main" is the thread executing run's while loop,  *)
(* "api" is a caller invoking simulate_trade directly, one operation at a  *)
(* time.  A step of a thread is one access to state another thread can     *)
(* see; CPython may switch threads between any two of them.                *)
(*                                                                         *)
(* Python dicts that the code iterates (market_data, positions) are        *)
(* sequences of [k, v] pairs in insertion order; the others are functions. *)
(***************************************************************************)
EXTENDS Integers, Sequences, FiniteSets, Bags, TLC

VARIABLES
    virtual_balance,   \* self.virtual_balance
    positions,         \* self.positions: coin -> quantity, in insertion order
    token_prices,      \* self.token_prices: coin -> purchase price
    market_data,       \* self.market_data: address -> entry, in insertion order
    analyzed_tokens,   \* self.analyzed_tokens: address -> [timestamp, is_safe]
    persisted,         \* contents of analyzed_tokens_cache.json
    min_market_cap_threshold,  \* self.min_market_cap_threshold, when the attribute exists
    now,               \* time.time()
    answer,            \* what the latest direct call of should_analyze_token returned
    pc,                \* each thread's position in the code
    trade,             \* each thread's simulate_trade frame (arguments and temporaries)
    outcome,           \* how each thread's last simulate_trade call ended
    pre,               \* the ledger as it was when each thread's simulate_trade call began
    nops,              \* number of direct simulate_trade calls made so far
    received,          \* number of messages the transport has delivered so far
    msg,               \* the message on_message is handling
    cur,               \* each thread's token_data (the dict object it holds)
    it,                \* the decision loop's iterator over market_data.items()
    analysis_result,   \* the decision loop's analysis_result dict
    exam,              \* each thread's examine_token_contract call
    checked,           \* per address, how the latest completed legitimacy check ended
    ps,                \* each thread's print_stats frame
    snap,              \* what each thread's last completed print_stats read
    issued,            \* the simulate_trade calls the bot's threads have made (a bag)
    settled            \* the ledgers seen while no bot thread was inside simulate_trade

ledgerVars == <<virtual_balance, positions, token_prices>>
tradeVars == <<trade, outcome, pre>>
storeVars == <<market_data, analyzed_tokens, persisted, min_market_cap_threshold, answer, now>>
flowVars == <<msg, cur, it, analysis_result, exam, checked>>
countVars == <<nops, received>>
statsVars == <<ps, snap>>
histVars == <<issued, settled>>
vars == <<virtual_balance, positions, token_prices, market_data, analyzed_tokens,
          persisted, min_market_cap_threshold, answer, now, pc, trade, outcome, pre, nops,
          received, msg, cur, it, analysis_result, exam, checked, ps, snap,
          issued, settled>>

\* ---------------------------------------------------------------- bounds

MaxOps == 3          \* direct simulate_trade calls in one behaviour
MaxMsgs == 2         \* messages delivered in one behaviour
MaxQty == 3          \* the api caller's quantities are 10, .., 10 * MaxQty tenths
MaxTicks == 1        \* the clock advances at most this many times
TickSeconds == 400   \* seconds per clock advance

\* ------------------------------------------------------- program constants

InitialBalance == 100          \* self.virtual_balance = 1 (SOL), in hundredths
position_size == 1             \* self.position_size = 0.1, in tenths
analysis_cache_time == 300     \* self.analysis_cache_time = 300
max_retries == 5               \* max_retries = 5

\* ------------------------------------------------------------ input sets

Threads == {"ws", "main"}
Callers == Threads \cup {"api"}
Coins == {"X", "Y"}
Sides == {"buy", "sell"}
Quantities == {10 * i : i \in 1..MaxQty}
Prices == {0, 1, 4}
Addrs == {"A1", "A2"}
Caps == {60}
Responses == {"non200", "ok", "noroute", "toonew", "failed", "neterror"}

\* ------------------------------------------------------- dict operations

EmptyDict == [k \in {} |-> 0]
DictGet(d, k, default) == IF k \in DOMAIN d THEN d[k] ELSE default
DictSet(d, k, v) == [x \in (DOMAIN d) \cup {k} |-> IF x = k THEN v ELSE d[x]]
DictDel(d, k) == [x \in (DOMAIN d) \ {k} |-> d[x]]

\* insertion-ordered dicts
OKeys(d) == {d[i].k : i \in DOMAIN d}
OHas(d, k) == k \in OKeys(d)
OIndex(d, k) == CHOOSE i \in DOMAIN d : d[i].k = k
OGet(d, k, default) == IF OHas(d, k) THEN d[OIndex(d, k)].v ELSE default
OSet(d, k, v) ==
    IF OHas(d, k) THEN [d EXCEPT ![OIndex(d, k)].v = v] ELSE Append(d, [k |-> k, v |-> v])
ODel(d, k) == SelectSeq(d, LAMBDA e : e.k # k)

Ledger == [balance |-> virtual_balance, positions |-> positions, prices |-> token_prices]
NoLedger == [balance |-> 0, positions |-> <<>>, prices |-> EmptyDict]

\* ------------------------------------------------------- simulate_trade

NoTrade == [coin |-> "", side |-> "", quantity |-> 0, price |-> 0, tmp |-> 0]

\* cost = quantity * price; proceeds = quantity * price
Cost(quantity, price) == quantity * price

\* a buy accepted whenever any balance is left
BuyAcceptedAnyFunds(balance, cost) == balance > 0

\* if self.virtual_balance >= cost
BuyAccepted(balance, cost) == balance >= cost

\* if coin in self.positions and self.positions[coin] >= quantity
SellAccepted(pos, coin, quantity) == OHas(pos, coin) /\ OGet(pos, coin, 0) >= quantity

\* a cleanup that keeps a position of exactly zero
PositionEmptiedBelowZero(amount) == amount < 0

\* if self.positions[coin] <= 0
PositionEmptied(amount) == amount <= 0

\* line 127-131, 143: what one buy, run alone from ledger l, leaves
ApplyBuy(l, op) ==
    IF BuyAccepted(l.balance, Cost(op.quantity, op.price))
      THEN [balance |-> l.balance - Cost(op.quantity, op.price),
            positions |-> OSet(l.positions, op.coin,
                               OGet(l.positions, op.coin, 0) + op.quantity),
            prices |-> DictSet(l.prices, op.coin, op.price)]
      ELSE l

\* line 145-163: what one sell, run alone from ledger l, leaves.  A position
\* always has its purchase price when calls run one at a time (a buy sets
\* both, a cleanup deletes both), so line 151 finds its key.
ApplySell(l, op) ==
    IF SellAccepted(l.positions, op.coin, op.quantity)
      THEN LET balance == l.balance + Cost(op.quantity, op.price)
               left == OGet(l.positions, op.coin, 0) - op.quantity
           IN IF PositionEmptied(left)
                THEN [balance |-> balance,
                      positions |-> ODel(l.positions, op.coin),
                      prices |-> DictDel(l.prices, op.coin)]
                ELSE [balance |-> balance,
                      positions |-> OSet(l.positions, op.coin, left),
                      prices |-> l.prices]
      ELSE l

\* The ledgers that running the buys of bag ops one after the other, in some
\* order, can leave when started from ledger l.
RECURSIVE SerialResults(_, _)
SerialResults(l, ops) ==
    IF ops = EmptyBag
      THEN {l}
      ELSE UNION {SerialResults(ApplyBuy(l, op), ops (-) SetToBag({op})) :
                    op \in BagToSet(ops)}

\* Where control goes when execute_momentum_trade (with place_order and
\* simulate_trade inside it) returns: on_message goes on to print_stats, run
\* goes on to store the analysis result, a direct caller is done.
AfterTrade(t) ==
    CASE t = "ws" -> "ps_begin"
      [] t = "main" -> "store"
      [] OTHER -> "idle"

\* The call: place_order, or a direct caller, enters simulate_trade.
EnterTrade(t, coin, side, quantity, price) ==
    /\ trade' = [trade EXCEPT ![t] = [coin |-> coin, side |-> side,
                                      quantity |-> quantity, price |-> price, tmp |-> 0]]
    /\ pre' = [pre EXCEPT ![t] = Ledger]
    /\ outcome' = [outcome EXCEPT ![t] = "running"]
    /\ pc' = [pc EXCEPT ![t] = IF side = "buy" THEN "buy_check" ELSE "sell_check"]
    /\ issued' = IF t \in Threads
                   THEN issued (+) SetToBag({[coin |-> coin, quantity |-> quantity,
                                              price |-> price]})
                   ELSE issued
    /\ UNCHANGED settled

\* The return ("applied", "rejected"), or the exception logged and re-raised by
\* line 164-166 ("raised"), which execute_momentum_trade catches (line 485).
\* The frame keeps the side of the call that ended.  The ledger variables of
\* the step are set before this conjunct.
LeaveTrade(t, how) ==
    /\ trade' = [trade EXCEPT ![t] = [NoTrade EXCEPT !.side = trade[t].side]]
    /\ pre' = [pre EXCEPT ![t] = NoLedger]
    /\ outcome' = [outcome EXCEPT ![t] = how]
    /\ pc' = [pc EXCEPT ![t] = AfterTrade(t)]
    /\ settled' = IF t \in Threads /\ \A u \in Threads \ {t} : outcome[u] # "running"
                    THEN settled \cup {Ledger'}
                    ELSE settled
    /\ UNCHANGED issued

\* A direct call of simulate_trade(coin, side, quantity, price).
ApiCall(coin, side, quantity, price) ==
    /\ pc["api"] = "idle"
    /\ nops < MaxOps
    /\ nops' = nops + 1
    /\ EnterTrade("api", coin, side, quantity, price)
    /\ UNCHANGED <<ledgerVars, received, storeVars, flowVars, statsVars>>

\* a buy that spends what is left instead of being rejected
BuyCheckClamped(t) ==
    /\ pc[t] = "buy_check"
    /\ UNCHANGED <<positions, token_prices, countVars, storeVars, flowVars, statsVars>>
    /\ IF BuyAccepted(virtual_balance, Cost(trade[t].quantity, trade[t].price))
         THEN /\ pc' = [pc EXCEPT ![t] = "buy_bal_load"]
              /\ UNCHANGED <<virtual_balance, tradeVars, histVars>>
         ELSE /\ virtual_balance' = 0
              /\ LeaveTrade(t, "rejected")

\* line 127-128, 143: the balance check of a buy
BuyCheck(t) ==
    /\ pc[t] = "buy_check"
    /\ UNCHANGED <<ledgerVars, countVars, storeVars, flowVars, statsVars>>
    /\ IF BuyAccepted(virtual_balance, Cost(trade[t].quantity, trade[t].price))
         THEN /\ pc' = [pc EXCEPT ![t] = "buy_bal_load"]
              /\ UNCHANGED <<tradeVars, histVars>>
         ELSE LeaveTrade(t, "rejected")

\* line 129, the read of self.virtual_balance -= cost
BuyBalLoad(t) ==
    /\ pc[t] = "buy_bal_load"
    /\ trade' = [trade EXCEPT ![t].tmp = virtual_balance]
    /\ pc' = [pc EXCEPT ![t] = "buy_bal_store"]
    /\ UNCHANGED <<ledgerVars, outcome, pre, countVars, storeVars, flowVars, statsVars,
                   histVars>>

\* line 129, the write of self.virtual_balance -= cost
BuyBalStore(t) ==
    /\ pc[t] = "buy_bal_store"
    /\ virtual_balance' = trade[t].tmp - Cost(trade[t].quantity, trade[t].price)
    /\ pc' = [pc EXCEPT ![t] = "buy_pos_load"]
    /\ UNCHANGED <<positions, token_prices, tradeVars, countVars, storeVars, flowVars,
                   statsVars, histVars>>

\* line 130, the read self.positions.get(coin, 0)
BuyPosLoad(t) ==
    /\ pc[t] = "buy_pos_load"
    /\ trade' = [trade EXCEPT ![t].tmp = OGet(positions, trade[t].coin, 0)]
    /\ pc' = [pc EXCEPT ![t] = "buy_pos_store"]
    /\ UNCHANGED <<ledgerVars, outcome, pre, countVars, storeVars, flowVars, statsVars,
                   histVars>>

\* a buy that replaces the held quantity instead of adding to it
BuyPosStoreOverwrite(t) ==
    /\ pc[t] = "buy_pos_store"
    /\ positions' = OSet(positions, trade[t].coin, trade[t].quantity)
    /\ pc' = [pc EXCEPT ![t] = "buy_price_store"]
    /\ UNCHANGED <<virtual_balance, token_prices, tradeVars, countVars, storeVars, flowVars,
                   statsVars, histVars>>

\* line 130, the write self.positions[coin] = ... + quantity
BuyPosStore(t) ==
    /\ pc[t] = "buy_pos_store"
    /\ positions' = OSet(positions, trade[t].coin, trade[t].tmp + trade[t].quantity)
    /\ pc' = [pc EXCEPT ![t] = "buy_price_store"]
    /\ UNCHANGED <<virtual_balance, token_prices, tradeVars, countVars, storeVars, flowVars,
                   statsVars, histVars>>

\* line 131: self.token_prices[coin] = price, then the log and the return
BuyPriceStore(t) ==
    /\ pc[t] = "buy_price_store"
    /\ token_prices' = DictSet(token_prices, trade[t].coin, trade[t].price)
    /\ UNCHANGED <<virtual_balance, positions, countVars, storeVars, flowVars, statsVars>>
    /\ LeaveTrade(t, "applied")

\* line 145, 163: the position check of a sell
SellCheck(t) ==
    /\ pc[t] = "sell_check"
    /\ UNCHANGED <<ledgerVars, countVars, storeVars, flowVars, statsVars>>
    /\ IF SellAccepted(positions, trade[t].coin, trade[t].quantity)
         THEN /\ pc' = [pc EXCEPT ![t] = "sell_balance"]
              /\ UNCHANGED <<tradeVars, histVars>>
         ELSE LeaveTrade(t, "rejected")

\* line 146-147: self.virtual_balance += proceeds
SellBalance(t) ==
    /\ pc[t] = "sell_balance"
    /\ virtual_balance' = virtual_balance + Cost(trade[t].quantity, trade[t].price)
    /\ pc' = [pc EXCEPT ![t] = "sell_position"]
    /\ UNCHANGED <<positions, token_prices, tradeVars, countVars, storeVars, flowVars,
                   statsVars, histVars>>

\* line 148: self.positions[coin] -= quantity (KeyError when the entry is gone)
SellPosition(t) ==
    /\ pc[t] = "sell_position"
    /\ UNCHANGED <<virtual_balance, token_prices, countVars, storeVars, flowVars, statsVars>>
    /\ IF OHas(positions, trade[t].coin)
         THEN /\ positions' = OSet(positions, trade[t].coin,
                                   OGet(positions, trade[t].coin, 0) - trade[t].quantity)
              /\ pc' = [pc EXCEPT ![t] = "sell_cleanup"]
              /\ UNCHANGED <<tradeVars, histVars>>
         ELSE /\ UNCHANGED positions
              /\ LeaveTrade(t, "raised")

\* a cleanup that drops the emptied position and keeps its purchase price
SellCleanupKeepsPrice(t) ==
    /\ pc[t] = "sell_cleanup"
    /\ UNCHANGED <<virtual_balance, token_prices, countVars, storeVars, flowVars, statsVars>>
    /\ IF ~OHas(positions, trade[t].coin)
         THEN /\ UNCHANGED positions
              /\ LeaveTrade(t, "raised")
         ELSE /\ positions' = IF PositionEmptied(OGet(positions, trade[t].coin, 0))
                                THEN ODel(positions, trade[t].coin) ELSE positions
              /\ LeaveTrade(t, "applied")

\* line 149-151: drop an emptied position and its purchase price; a del of a
\* missing key raises KeyError
SellCleanup(t) ==
    /\ pc[t] = "sell_cleanup"
    /\ UNCHANGED <<virtual_balance, countVars, storeVars, flowVars, statsVars>>
    /\ IF ~OHas(positions, trade[t].coin)
         THEN /\ UNCHANGED <<positions, token_prices>>
              /\ LeaveTrade(t, "raised")
         ELSE IF PositionEmptied(OGet(positions, trade[t].coin, 0))
           THEN /\ positions' = ODel(positions, trade[t].coin)
                /\ IF trade[t].coin \in DOMAIN token_prices
                     THEN /\ token_prices' = DictDel(token_prices, trade[t].coin)
                          /\ LeaveTrade(t, "applied")
                     ELSE /\ UNCHANGED token_prices
                          /\ LeaveTrade(t, "raised")
           ELSE /\ UNCHANGED <<positions, token_prices>>
                /\ LeaveTrade(t, "applied")

\* ----------------------------------------------------------- print_stats

NoStats == [used |-> 0, idx |-> 0, token |-> "", amount |-> 0, holdings |-> 0, seen |-> <<>>]
NoSnap == [taken |-> FALSE, raised |-> FALSE, balance |-> 0, positions |-> <<>>,
           prices |-> EmptyDict, holdings |-> 0]

\* Where control goes when print_stats returns: on_message returns to the
\* transport, run goes on to its pass over market_data.
AfterStats(t) == IF t = "ws" THEN "recv" ELSE "iter_begin"

\* a decision loop with no except clause of its own
CaughtByTransportOnly(t) == IF t = "ws" THEN "recv" ELSE "dead"

\* Where control goes when an exception leaves a handler or a pass: the except
\* of on_message (line 229-234) logs it and on_message returns to the
\* transport; the except of run (line 638) takes over in the decision loop.
Caught(t) == IF t = "ws" THEN "recv" ELSE "except"

\* Where control goes when print_stats raises (line 558-561 re-raises): the
\* except of on_message (line 232) or of run (line 638) catches it.
StatsRaised(t) == Caught(t)

\* line 506-509: the locals, and the iterator over self.positions.items()
PsBegin(t) ==
    /\ pc[t] = "ps_begin"
    /\ ps' = [ps EXCEPT ![t] = [NoStats EXCEPT !.used = Len(positions)]]
    /\ pc' = [pc EXCEPT ![t] = "ps_next"]
    /\ UNCHANGED <<ledgerVars, tradeVars, countVars, storeVars, flowVars, snap, histVars>>

\* line 509: the iterator's next item; a dict whose size changed since the
\* iterator was made raises RuntimeError
PsNext(t) ==
    /\ pc[t] = "ps_next"
    /\ IF Len(positions) # ps[t].used
         THEN /\ ps' = [ps EXCEPT ![t] = NoStats]
              /\ snap' = [snap EXCEPT ![t] = [NoSnap EXCEPT !.raised = TRUE]]
              /\ pc' = [pc EXCEPT ![t] = StatsRaised(t)]
         ELSE IF ps[t].idx = ps[t].used
           THEN /\ pc' = [pc EXCEPT ![t] = "ps_total"]
                /\ UNCHANGED <<ps, snap>>
           ELSE /\ ps' = [ps EXCEPT ![t].idx = @ + 1,
                                    ![t].token = positions[ps[t].idx + 1].k,
                                    ![t].amount = positions[ps[t].idx + 1].v]
                /\ pc' = [pc EXCEPT ![t] = "ps_price"]
                /\ UNCHANGED snap
    /\ UNCHANGED <<ledgerVars, tradeVars, countVars, storeVars, flowVars, histVars>>

\* line 510-512: market_cap = self.token_prices.get(token, 0); the sum
PsPrice(t) ==
    /\ pc[t] = "ps_price"
    /\ LET price == DictGet(token_prices, ps[t].token, 0)
       IN ps' = [ps EXCEPT ![t].holdings = @ + ps[t].amount * price,
                           ![t].seen = Append(@, [k |-> ps[t].token, v |-> ps[t].amount,
                                                  price |-> price]),
                           ![t].token = "", ![t].amount = 0]
    /\ pc' = [pc EXCEPT ![t] = "ps_next"]
    /\ UNCHANGED <<ledgerVars, tradeVars, countVars, storeVars, flowVars, snap, histVars>>

\* line 523: total_value = self.virtual_balance + holdings_value, then the
\* formatting and the print
PsTotal(t) ==
    /\ pc[t] = "ps_total"
    /\ snap' = [snap EXCEPT ![t] =
         [taken |-> TRUE, raised |-> FALSE, balance |-> virtual_balance,
          positions |-> [i \in DOMAIN ps[t].seen |-> [k |-> ps[t].seen[i].k, v |-> ps[t].seen[i].v]],
          prices |-> [c \in {ps[t].seen[i].k : i \in DOMAIN ps[t].seen} |->
                        ps[t].seen[CHOOSE i \in DOMAIN ps[t].seen : ps[t].seen[i].k = c].price],
          holdings |-> ps[t].holdings]]
    /\ ps' = [ps EXCEPT ![t] = NoStats]
    /\ pc' = [pc EXCEPT ![t] = AfterStats(t)]
    /\ UNCHANGED <<ledgerVars, tradeVars, countVars, storeVars, flowVars, histVars>>

\* -------------------------------------------------- should_analyze_token

\* a record that counts as stale from the moment its age reaches the limit
should_analyze_token_from_ttl(token_address) ==
    \/ token_address \notin DOMAIN analyzed_tokens
    \/ now - analyzed_tokens[token_address].timestamp >= analysis_cache_time

\* line 567-578: no record, or a record older than analysis_cache_time
should_analyze_token(token_address) ==
    \/ token_address \notin DOMAIN analyzed_tokens
    \/ now - analyzed_tokens[token_address].timestamp > analysis_cache_time

NoAnswer == [asked |-> FALSE, addr |-> "", at |-> 0, recorded |-> FALSE, timestamp |-> 0,
             stale |-> FALSE]

\* A direct call of should_analyze_token(token_address): line 567 reads the
\* record and line 572 the clock; the call only logs and returns.
AskStale(token_address) ==
    /\ answer' = [asked |-> TRUE, addr |-> token_address, at |-> now,
                  recorded |-> token_address \in DOMAIN analyzed_tokens,
                  timestamp |-> IF token_address \in DOMAIN analyzed_tokens
                                  THEN analyzed_tokens[token_address].timestamp ELSE 0,
                  stale |-> should_analyze_token(token_address)]
    /\ UNCHANGED <<ledgerVars, tradeVars, countVars, market_data, analyzed_tokens, persisted,
                   min_market_cap_threshold, now, pc, flowVars, statsVars, histVars>>

\* ----------------------------------------------- examine_token_contract

NoExam == [addr |-> "", calls |-> 0, resp |-> "", ret |-> FALSE]

\* line 372-383: the first pass of `for attempt in range(max_retries)` issues
\* the request and blocks in self.session.get
ExamineCall(token_address) == [addr |-> token_address, calls |-> 1, resp |-> "", ret |-> FALSE]

\* line 385-402: what the call returns for each answer of the endpoint.  Every
\* branch of the try block returns: status_code != 200 ("non200"), code == 0
\* ("ok"), code != 0 with "jupiter has no route" in msg ("noroute"), code != 0
\* with a msg saying the token is too new to examine ("toonew") or any other
\* msg ("failed"), and requests.RequestException ("neterror").  Nothing
\* reaches the sleep of line 406, so the loop never makes a second pass.
\* an examination that also accepts a token with no swap route
ExamineResultRouteless(resp) == resp \in {"ok", "noroute"}

ExamineResult(resp) == resp = "ok"

\* the frame of a call that has returned: the answer it got, the value returned
ExamineReturn(frame, resp) == [frame EXCEPT !.resp = resp, !.ret = ExamineResult(resp)]

CheckOutcome(resp) == IF ExamineResult(resp) THEN "confirmed" ELSE "rejected"

\* ------------------------------------------------------------ on_message

NoMsg == [kind |-> "", mint |-> "", symbol |-> "", cap |-> 0]
NoData == [addr |-> "", symbol |-> "", market_cap_key |-> FALSE, cap |-> 0]

SymbolOf(mint) == IF mint = "A1" THEN "X" ELSE "Y"

\* The messages the transport delivers.  "ignored" is a message on_message
\* returns from before dispatching (invalid JSON, a 'message', 'errors' or
\* 'result' envelope, no 'type'); "create" has txType 'create'; "other" has a
\* type with no effect on market data (accountTrade, raydiumLiquidity, unknown).
Messages ==
    {[NoMsg EXCEPT !.kind = "ignored"], [NoMsg EXCEPT !.kind = "other"]}
    \cup {[kind |-> kd, mint |-> a, symbol |-> SymbolOf(a), cap |-> c] :
            kd \in {"create", "newToken", "tokenTrade"}, a \in Addrs, c \in Caps}

\* data.get('marketCapSol') of an event without that field: None
NoneCap == -1

\* tokenTrade events that lack the market-cap field
MalformedMessages ==
    {[kind |-> "tokenTrade", mint |-> a, symbol |-> SymbolOf(a), cap |-> NoneCap] : a \in Addrs}

\* line 262-269: the entry handle_new_token stores has no 'market_cap' key (the
\* event's marketCapSol goes under 'market_cap_sol')
NewTokenEntry(m) == [symbol |-> m.symbol, market_cap_key |-> FALSE, cap |-> m.cap]

\* line 301-306: the entry handle_token_trade stores
TokenTradeEntry(m) == [symbol |-> m.symbol, market_cap_key |-> TRUE, cap |-> m.cap]

\* line 262-269, 301-306: the keys of a stored entry
EntryKeys(entry) ==
    IF entry.market_cap_key
      THEN {"market_cap", "address", "last_trade", "symbol"}
      ELSE {"symbol", "address", "initial_buy", "sol_amount", "market_cap_sol", "last_trade"}

TokenData(addr, entry) ==
    [addr |-> addr, symbol |-> entry.symbol, market_cap_key |-> entry.market_cap_key,
     cap |-> entry.cap]

\* line 186-214, 229-231: a message that is dropped before any handler runs
OnMessageIgnored(m) ==
    /\ pc["ws"] = "recv"
    /\ m.kind = "ignored"
    /\ received < MaxMsgs
    /\ received' = received + 1
    /\ UNCHANGED <<ledgerVars, tradeVars, nops, storeVars, pc, flowVars, statsVars, histVars>>

\* line 220-228: a typed message whose handler only logs, then print_stats
OnMessageOther(m) ==
    /\ pc["ws"] = "recv"
    /\ m.kind = "other"
    /\ received < MaxMsgs
    /\ received' = received + 1
    /\ pc' = [pc EXCEPT !["ws"] = "ps_begin"]
    /\ UNCHANGED <<ledgerVars, tradeVars, nops, storeVars, flowVars, statsVars, histVars>>

\* line 200-202 / 216-217, 257-275: handle_new_token stores the entry and
\* calls examine_token_contract on the websocket thread
HandleNewToken(m) ==
    /\ pc["ws"] = "recv"
    /\ m.kind \in {"create", "newToken"}
    /\ received < MaxMsgs
    /\ received' = received + 1
    /\ market_data' = OSet(market_data, m.mint, NewTokenEntry(m))
    /\ msg' = m
    /\ exam' = [exam EXCEPT !["ws"] = ExamineCall(m.mint)]
    /\ pc' = [pc EXCEPT !["ws"] = "hn_examine"]
    /\ UNCHANGED <<ledgerVars, tradeVars, nops, analyzed_tokens, persisted,
                   min_market_cap_threshold, answer, now, cur, it, analysis_result, checked,
                   statsVars, histVars>>

\* An address outside Addrs: the feed never runs out of new tokens.
FreshAddr == "fresh"

\* newToken events for addresses market_data does not hold yet
FreshMessages == {[kind |-> "newToken", mint |-> FreshAddr, symbol |-> "Z", cap |-> c] : c \in Caps}

\* the value of it.used once the dict has grown by an entry the model does not
\* keep: no length of market_data equals it
SizeChanged == -1

\* line 257-275, for an address outside Addrs.  Line 262 adds an entry to
\* market_data, which makes the dict one longer than any live iterator over it
\* was made for; entries are never removed, so the iterator of run stays
\* invalid.  The entry itself is not kept: of the addresses outside Addrs the
\* decision loop's for statement only sees that the size changed.
HandleNewTokenFresh(m) ==
    /\ pc["ws"] = "recv"
    /\ m.kind = "newToken"
    /\ m.mint = FreshAddr
    /\ it' = IF pc["main"] \in {"iter_next", "examine", "emt", "store"}
               THEN [it EXCEPT !.used = SizeChanged] ELSE it
    /\ msg' = m
    /\ exam' = [exam EXCEPT !["ws"] = ExamineCall(m.mint)]
    /\ pc' = [pc EXCEPT !["ws"] = "hn_examine"]
    /\ UNCHANGED <<ledgerVars, tradeVars, countVars, storeVars, cur, analysis_result, checked,
                   statsVars, histVars>>

\* line 275: examine_token_contract returns to handle_new_token, which drops
\* the result
HandleNewTokenExamined(resp) ==
    /\ pc["ws"] = "hn_examine"
    /\ exam' = [exam EXCEPT !["ws"] = ExamineReturn(exam["ws"], resp)]
    /\ checked' = [checked EXCEPT ![exam["ws"].addr] = CheckOutcome(resp)]
    /\ pc' = [pc EXCEPT !["ws"] = "hn_analyze"]
    /\ UNCHANGED <<ledgerVars, tradeVars, countVars, storeVars, msg, cur, it, analysis_result,
                   statsVars, histVars>>

\* line 278-290: the entry handle_new_token stored has neither 'price' nor
\* 'volume', and nothing else writes market_data[token_address] meanwhile, so
\* both branches of should_analyze_token only log.  Then line 203 returns
\* (txType 'create') or line 227-228 goes on to print_stats (type 'newToken').
HandleNewTokenAnalyze ==
    /\ pc["ws"] = "hn_analyze"
    /\ pc' = [pc EXCEPT !["ws"] = IF msg.kind = "create" THEN "recv" ELSE "ps_begin"]
    /\ msg' = NoMsg
    /\ exam' = [exam EXCEPT !["ws"] = NoExam]
    /\ UNCHANGED <<ledgerVars, tradeVars, countVars, storeVars, cur, it, analysis_result,
                   checked, statsVars, histVars>>

\* line 296-312: handle_token_trade stores the entry
HandleTokenTrade(m) ==
    /\ pc["ws"] = "recv"
    /\ m.kind = "tokenTrade"
    /\ received < MaxMsgs
    /\ received' = received + 1
    /\ market_data' = OSet(market_data, m.mint, TokenTradeEntry(m))
    /\ msg' = m
    /\ pc' = [pc EXCEPT !["ws"] = "ht_analyze"]
    /\ UNCHANGED <<ledgerVars, tradeVars, nops, analyzed_tokens, persisted,
                   min_market_cap_threshold, answer, now, cur, it, analysis_result, exam, checked,
                   statsVars, histVars>>

\* line 296-312, 232-234: for a tokenTrade event without marketCapSol,
\* handle_token_trade stores the entry with 'market_cap': None, then the format
\* `{market_cap:<10.4f}` of the log line raises TypeError; the except of
\* on_message logs it and on_message returns, without print_stats
HandleTokenTradeNoCap(m) ==
    /\ pc["ws"] = "recv"
    /\ m.kind = "tokenTrade"
    /\ m.cap = NoneCap
    /\ received < MaxMsgs
    /\ received' = received + 1
    /\ market_data' = OSet(market_data, m.mint, TokenTradeEntry(m))
    /\ pc' = [pc EXCEPT !["ws"] = Caught("ws")]
    /\ UNCHANGED <<ledgerVars, tradeVars, nops, analyzed_tokens, persisted,
                   min_market_cap_threshold, answer, now, flowVars, statsVars, histVars>>

\* line 315-319: a token with no fresh analysis record goes to
\* execute_momentum_trade; then on_message goes on to print_stats
HandleTokenTradeAnalyze ==
    /\ pc["ws"] = "ht_analyze"
    /\ IF should_analyze_token(msg.mint)
         THEN /\ cur' = [cur EXCEPT !["ws"] =
                            TokenData(msg.mint, OGet(market_data, msg.mint, NoData))]
              /\ pc' = [pc EXCEPT !["ws"] = "emt"]
         ELSE /\ pc' = [pc EXCEPT !["ws"] = "ps_begin"]
              /\ UNCHANGED cur
    /\ msg' = NoMsg
    /\ UNCHANGED <<ledgerVars, tradeVars, countVars, storeVars, it, analysis_result, exam,
                   checked, statsVars, histVars>>

\* ------------------------------------------------ execute_momentum_trade

NoThreshold == [defined |-> FALSE, value |-> 0]

\* a comparison that reads a missing threshold as 0 instead of raising
MomentumRaisesOnDataOnly(token_data, threshold) ==
    \/ ~token_data.market_cap_key
    \/ token_data.cap = NoneCap

\* line 475-476: token_data['market_cap'] raises KeyError without the key;
\* line 479: self.min_market_cap_threshold raises AttributeError when the
\* attribute was never set, and TypeError when market_cap is None.  All are
\* caught by line 485.
MomentumRaises(token_data, threshold) ==
    \/ ~token_data.market_cap_key
    \/ ~threshold.defined
    \/ token_data.cap = NoneCap

\* line 479: if market_cap > self.min_market_cap_threshold
MomentumBuys(token_data, threshold) == token_data.cap > threshold.value

\* line 474-486
ExecuteMomentumTrade(t) ==
    /\ pc[t] = "emt"
    /\ IF MomentumRaises(cur[t], min_market_cap_threshold)
         THEN /\ pc' = [pc EXCEPT ![t] = AfterTrade(t)]
              /\ UNCHANGED <<tradeVars, histVars>>
         ELSE IF MomentumBuys(cur[t], min_market_cap_threshold)
           THEN EnterTrade(t, cur[t].symbol, "buy", position_size, cur[t].cap)
           ELSE /\ pc' = [pc EXCEPT ![t] = AfterTrade(t)]
                /\ UNCHANGED <<tradeVars, histVars>>
    /\ cur' = [cur EXCEPT ![t] = NoData]
    /\ UNCHANGED <<ledgerVars, countVars, storeVars, msg, it, analysis_result, exam, checked,
                   statsVars>>

\* ------------------------------------------------------------------- run

NoIter == [used |-> 0, idx |-> 0]
NoResult == [timestamp |-> 0, is_safe |-> FALSE]

\* line 611-612: get_market_data returns self.market_data itself, and the for
\* statement makes an iterator over its items
IterBegin ==
    /\ pc["main"] = "iter_begin"
    /\ it' = [used |-> Len(market_data), idx |-> 0]
    /\ pc' = [pc EXCEPT !["main"] = "iter_next"]
    /\ UNCHANGED <<ledgerVars, tradeVars, countVars, storeVars, msg, cur, analysis_result, exam,
                   checked, statsVars, histVars>>

\* line 612-624: the iterator's next item (RuntimeError when the dict's size
\* changed since the iterator was made), the staleness test, the timestamp
\* and the call of examine_token_contract
IterNext ==
    /\ pc["main"] = "iter_next"
    /\ IF Len(market_data) # it.used
         THEN /\ pc' = [pc EXCEPT !["main"] = Caught("main")]
              /\ UNCHANGED <<it, cur, analysis_result, exam>>
         ELSE IF it.idx = it.used
           THEN /\ pc' = [pc EXCEPT !["main"] = "save"]
                /\ UNCHANGED <<it, cur, analysis_result, exam>>
           ELSE LET item == market_data[it.idx + 1]
                IN /\ it' = [it EXCEPT !.idx = @ + 1]
                   /\ IF should_analyze_token(item.k)
                        THEN /\ cur' = [cur EXCEPT !["main"] = TokenData(item.k, item.v)]
                             /\ analysis_result' = [timestamp |-> now, is_safe |-> FALSE]
                             /\ exam' = [exam EXCEPT !["main"] = ExamineCall(item.k)]
                             /\ pc' = [pc EXCEPT !["main"] = "examine"]
                        ELSE UNCHANGED <<pc, cur, analysis_result, exam>>
    /\ UNCHANGED <<ledgerVars, tradeVars, countVars, storeVars, msg, checked, statsVars, histVars>>

\* line 624-629: examine_token_contract returns to run
RunExamined(resp) ==
    /\ pc["main"] = "examine"
    /\ exam' = [exam EXCEPT !["main"] = ExamineReturn(exam["main"], resp)]
    /\ checked' = [checked EXCEPT ![exam["main"].addr] = CheckOutcome(resp)]
    /\ IF ExamineResult(resp)
         THEN /\ analysis_result' = [analysis_result EXCEPT !.is_safe = TRUE]
              /\ pc' = [pc EXCEPT !["main"] = "emt"]
              /\ UNCHANGED cur
         ELSE /\ pc' = [pc EXCEPT !["main"] = "store"]
              /\ cur' = [cur EXCEPT !["main"] = NoData]
              /\ UNCHANGED analysis_result
    /\ UNCHANGED <<ledgerVars, tradeVars, countVars, storeVars, msg, it, statsVars, histVars>>

\* a loop that records every examined token as safe
StoreAnalysisAsSafe ==
    /\ pc["main"] = "store"
    /\ analyzed_tokens' = DictSet(analyzed_tokens, exam["main"].addr,
                                  [analysis_result EXCEPT !.is_safe = TRUE])
    /\ analysis_result' = NoResult
    /\ exam' = [exam EXCEPT !["main"] = NoExam]
    /\ pc' = [pc EXCEPT !["main"] = "iter_next"]
    /\ UNCHANGED <<ledgerVars, tradeVars, countVars, market_data, persisted,
                   min_market_cap_threshold, answer, now, msg, cur, it, checked, statsVars, histVars>>

\* line 631: self.analyzed_tokens[token_address] = analysis_result
StoreAnalysis ==
    /\ pc["main"] = "store"
    /\ analyzed_tokens' = DictSet(analyzed_tokens, exam["main"].addr, analysis_result)
    /\ analysis_result' = NoResult
    /\ exam' = [exam EXCEPT !["main"] = NoExam]
    /\ pc' = [pc EXCEPT !["main"] = "iter_next"]
    /\ UNCHANGED <<ledgerVars, tradeVars, countVars, market_data, persisted,
                   min_market_cap_threshold, answer, now, msg, cur, it, checked, statsVars, histVars>>

\* line 634-636: save_cache_to_file writes the whole mapping, then the sleep
SaveCache ==
    /\ pc["main"] = "save"
    /\ persisted' = analyzed_tokens
    /\ it' = NoIter
    /\ pc' = [pc EXCEPT !["main"] = "ps_begin"]
    /\ UNCHANGED <<ledgerVars, tradeVars, countVars, market_data, analyzed_tokens,
                   min_market_cap_threshold, answer, now, msg, cur, analysis_result, exam, checked,
                   statsVars, histVars>>

\* line 638-640: the except of the while loop logs, sleeps and starts over
LoopExcept ==
    /\ pc["main"] = "except"
    /\ it' = NoIter
    /\ pc' = [pc EXCEPT !["main"] = "ps_begin"]
    /\ UNCHANGED <<ledgerVars, tradeVars, countVars, storeVars, msg, cur, analysis_result, exam,
                   checked, statsVars, histVars>>

\* time.time() advances
Tick ==
    /\ now < MaxTicks * TickSeconds
    /\ now' = now + TickSeconds
    /\ UNCHANGED <<ledgerVars, tradeVars, countVars, market_data, analyzed_tokens, persisted,
                   min_market_cap_threshold, answer, pc, flowVars, statsVars, histVars>>

\* ------------------------------------------------------ specifications

\* line 47-53: the state __init__ leaves
InitState ==
    /\ virtual_balance = InitialBalance
    /\ positions = <<>>
    /\ token_prices = EmptyDict
    /\ market_data = <<>>
    /\ analyzed_tokens = EmptyDict
    /\ persisted = EmptyDict
    /\ now = 0
    /\ answer = NoAnswer
    /\ trade = [t \in Callers |-> NoTrade]
    /\ outcome = [t \in Callers |-> "none"]
    /\ pre = [t \in Callers |-> NoLedger]
    /\ nops = 0
    /\ received = 0
    /\ msg = NoMsg
    /\ cur = [t \in Callers |-> NoData]
    /\ it = NoIter
    /\ analysis_result = NoResult
    /\ exam = [t \in Callers |-> NoExam]
    /\ checked = [a \in Addrs |-> "none"]
    /\ ps = [t \in Callers |-> NoStats]
    /\ snap = [t \in Callers |-> NoSnap]
    /\ issued = EmptyBag
    /\ settled = {[balance |-> InitialBalance, positions |-> <<>>, prices |-> EmptyDict]}

\* line 602-608: run has started the websocket thread and enters its loop.
\* __init__ sets no min_market_cap_threshold: the attribute does not exist.
Init ==
    /\ InitState
    /\ min_market_cap_threshold = NoThreshold
    /\ pc = [t \in Callers |-> CASE t = "ws" -> "recv" [] t = "main" -> "ps_begin"
                                 [] OTHER -> "off"]

\* The bot as __init__ builds it.  execute_momentum_trade never gets past line
\* 479 there, so no thread enters simulate_trade and positions stays empty:
\* the steps of simulate_trade and the body of print_stats's loop are left to
\* the specifications below, in which they can happen.
Next ==
    \/ \E m \in Messages : OnMessageIgnored(m)
    \/ \E m \in Messages : OnMessageOther(m)
    \/ \E m \in Messages : HandleNewToken(m)
    \/ \E resp \in Responses : HandleNewTokenExamined(resp)
    \/ HandleNewTokenAnalyze
    \/ \E m \in Messages : HandleTokenTrade(m)
    \/ \E m \in MalformedMessages : HandleTokenTradeNoCap(m)
    \/ HandleTokenTradeAnalyze
    \/ \E t \in Threads : ExecuteMomentumTrade(t)
    \/ \E t \in Threads : PsBegin(t)
    \/ \E t \in Threads : PsNext(t)
    \/ \E t \in Threads : PsTotal(t)
    \/ IterBegin
    \/ IterNext
    \/ \E resp \in Responses : RunExamined(resp)
    \/ StoreAnalysis
    \/ SaveCache
    \/ LoopExcept
    \/ Tick

Spec == Init /\ [][Next]_vars

\* The ledger driven by direct calls of simulate_trade, one at a time.
InitLedger ==
    /\ InitState
    /\ min_market_cap_threshold = NoThreshold
    /\ pc = [t \in Callers |-> IF t = "api" THEN "idle" ELSE "off"]

ApiCalls ==
    \E coin \in Coins, side \in Sides, quantity \in Quantities, price \in Prices :
        ApiCall(coin, side, quantity, price)

NextLedger ==
    \/ ApiCalls
    \/ BuyCheck("api")
    \/ BuyBalLoad("api")
    \/ BuyBalStore("api")
    \/ BuyPosLoad("api")
    \/ BuyPosStore("api")
    \/ BuyPriceStore("api")
    \/ SellCheck("api")
    \/ SellBalance("api")
    \/ SellPosition("api")
    \/ SellCleanup("api")

SpecLedger == InitLedger /\ [][NextLedger]_vars

\* The analysis cache driven directly: records stored as line 631 stores them,
\* the clock advancing in steps, and direct calls of should_analyze_token.
StepSeconds == 100
MaxNow == 500

InitCache ==
    /\ InitState
    /\ min_market_cap_threshold = NoThreshold
    /\ pc = [t \in Callers |-> "off"]

\* line 616-619, 631: a record with the current time as its timestamp
Record(token_address, is_safe) ==
    /\ analyzed_tokens' = DictSet(analyzed_tokens, token_address,
                                  [timestamp |-> now, is_safe |-> is_safe])
    /\ UNCHANGED <<ledgerVars, tradeVars, countVars, market_data, persisted,
                   min_market_cap_threshold, answer, now, pc, flowVars, statsVars, histVars>>

\* time.time() advances by one step
Advance ==
    /\ now + StepSeconds <= MaxNow
    /\ now' = now + StepSeconds
    /\ UNCHANGED <<ledgerVars, tradeVars, countVars, market_data, analyzed_tokens, persisted,
                   min_market_cap_threshold, answer, pc, flowVars, statsVars, histVars>>

NextCache ==
    \/ \E a \in Addrs, is_safe \in BOOLEAN : Record(a, is_safe)
    \/ Advance
    \/ \E a \in Addrs : AskStale(a)

SpecCache == InitCache /\ [][NextCache]_vars

\* The same, with calls of quantity 0 among the direct calls.
QuantitiesFrom0 == Quantities \cup {0}

ApiCallsFrom0 ==
    \E coin \in Coins, side \in Sides, quantity \in QuantitiesFrom0, price \in Prices :
        ApiCall(coin, side, quantity, price)

NextLedgerFrom0 ==
    \/ ApiCallsFrom0
    \/ BuyCheck("api")
    \/ BuyBalLoad("api")
    \/ BuyBalStore("api")
    \/ BuyPosLoad("api")
    \/ BuyPosStore("api")
    \/ BuyPriceStore("api")
    \/ SellCheck("api")
    \/ SellBalance("api")
    \/ SellPosition("api")
    \/ SellCleanup("api")

SpecLedgerFrom0 == InitLedger /\ [][NextLedgerFrom0]_vars

\* The bot with the strategy's minimum market cap configured (process
\* configuration: the momentum threshold), in tenths of a SOL.
ConfiguredThreshold == 30

InitConfigured ==
    /\ InitState
    /\ min_market_cap_threshold = [defined |-> TRUE, value |-> ConfiguredThreshold]
    /\ pc = [t \in Callers |-> CASE t = "ws" -> "recv" [] t = "main" -> "ps_begin"
                                 [] OTHER -> "off"]

\* Both threads of run, with the buys execute_momentum_trade places.  The bot
\* never sells.
NextConfigured ==
    \/ \E m \in Messages : OnMessageIgnored(m)
    \/ \E m \in Messages : OnMessageOther(m)
    \/ \E m \in Messages : HandleNewToken(m)
    \/ \E resp \in Responses : HandleNewTokenExamined(resp)
    \/ HandleNewTokenAnalyze
    \/ \E m \in Messages : HandleTokenTrade(m)
    \/ HandleTokenTradeAnalyze
    \/ \E t \in Threads : ExecuteMomentumTrade(t)
    \/ \E t \in Threads : BuyCheck(t)
    \/ \E t \in Threads : BuyBalLoad(t)
    \/ \E t \in Threads : BuyBalStore(t)
    \/ \E t \in Threads : BuyPosLoad(t)
    \/ \E t \in Threads : BuyPosStore(t)
    \/ \E t \in Threads : BuyPriceStore(t)
    \/ \E t \in Threads : PsBegin(t)
    \/ \E t \in Threads : PsNext(t)
    \/ \E t \in Threads : PsPrice(t)
    \/ \E t \in Threads : PsTotal(t)
    \/ IterBegin
    \/ IterNext
    \/ \E resp \in Responses : RunExamined(resp)
    \/ StoreAnalysis
    \/ SaveCache
    \/ LoopExcept

SpecConfigured == InitConfigured /\ [][NextConfigured]_vars

\* The bot as __init__ builds it, on a feed that keeps announcing new tokens:
\* besides MaxMsgs events for Addrs, any number of newToken events for other
\* addresses.  The decision loop keeps being scheduled and every call the
\* threads make returns (weak fairness of their steps); nothing is assumed
\* about when events arrive.
NextStream ==
    \/ \E m \in Messages : HandleNewToken(m)
    \/ \E m \in FreshMessages : HandleNewTokenFresh(m)
    \/ \E resp \in Responses : HandleNewTokenExamined(resp)
    \/ HandleNewTokenAnalyze
    \/ \E m \in Messages : HandleTokenTrade(m)
    \/ HandleTokenTradeAnalyze
    \/ \E t \in Threads : ExecuteMomentumTrade(t)
    \/ \E t \in Threads : PsBegin(t)
    \/ \E t \in Threads : PsNext(t)
    \/ \E t \in Threads : PsTotal(t)
    \/ IterBegin
    \/ IterNext
    \/ \E resp \in Responses : RunExamined(resp)
    \/ StoreAnalysis
    \/ SaveCache
    \/ LoopExcept

\* the steps of the decision loop
MainStep ==
    \/ PsBegin("main") \/ PsNext("main") \/ PsTotal("main")
    \/ IterBegin \/ IterNext
    \/ \E resp \in Responses : RunExamined(resp)
    \/ ExecuteMomentumTrade("main")
    \/ StoreAnalysis \/ SaveCache \/ LoopExcept

\* the steps of a handler once its message was taken
HandlerStep ==
    \/ \E resp \in Responses : HandleNewTokenExamined(resp)
    \/ HandleNewTokenAnalyze
    \/ HandleTokenTradeAnalyze
    \/ ExecuteMomentumTrade("ws")
    \/ PsBegin("ws") \/ PsNext("ws") \/ PsTotal("ws")

SpecStream == Init /\ [][NextStream]_vars /\ WF_vars(MainStep) /\ WF_vars(HandlerStep)

\* ------------------------------------------------------------------ claims

\* C1: starting from balance 1 and no positions, after every sequence of buys
\* and sells applied one at a time (quantity > 0, price >= 0), virtual_balance
\* is never negative and no quantity in positions is negative.
C1_LedgerNonNegative ==
    /\ virtual_balance >= 0
    /\ \A i \in DOMAIN positions : positions[i].v >= 0

\* C1 witness: buys and sells went through and the ledger holds a position
\* bought with part of the balance.
C1_Witness ==
    /\ nops >= 3
    /\ pc["api"] = "idle"
    /\ outcome["api"] = "applied"
    /\ trade["api"].side = "sell"
    /\ virtual_balance < InitialBalance
    /\ positions # <<>>

\* C3: a rejected ledger operation mutates nothing and is not fatal: a buy
\* whose cost exceeds virtual_balance, and a sell whose quantity exceeds
\* positions[token] (a missing entry counting as 0), leave virtual_balance,
\* positions and token_prices as they were when the call began, the call
\* returns to its caller, and no call ends with an exception.
C3_RejectedMutatesNothing ==
    [][ /\ outcome'["api"] # "raised"
        /\ ( \/ /\ pc["api"] = "buy_check"
                /\ Cost(trade["api"].quantity, trade["api"].price) > virtual_balance
             \/ /\ pc["api"] = "sell_check"
                /\ trade["api"].quantity > OGet(positions, trade["api"].coin, 0) )
           => /\ Ledger' = pre["api"]
              /\ Ledger' = Ledger
              /\ outcome'["api"] = "rejected"
              /\ pc'["api"] = "idle" ]_vars

\* C3 witness: a sell was rejected while the ledger held a position and part of
\* the balance was spent.
C3_Witness ==
    /\ pc["api"] = "idle"
    /\ outcome["api"] = "rejected"
    /\ trade["api"].side = "sell"
    /\ positions # <<>>
    /\ virtual_balance < InitialBalance

C4_DecideOnlyAfterConfirmed ==
    \A t \in Threads : pc[t] = "emt" => checked[cur[t].addr] = "confirmed"

\* C5: the ingestion thread never waits for a legitimacy check: whenever a
\* call of examine_token_contract has not returned yet, the thread inside it
\* is not the websocket thread.
C5_FeedNeverBlocked ==
    \A t \in Threads : (exam[t].addr # "" /\ exam[t].resp = "") => t # "ws"

\* C6: the decision loop's pass over the market data is never aborted by the
\* ingestion thread's writes: the step that takes the iterator's next item
\* never ends in the except clause of run.
C6_IterationNeverAborted ==
    [][pc["main"] = "iter_next" => pc'["main"] # "except"]_vars

C8_FreshAfterRecord ==
    [][\A a \in Addrs :
          (pc["main"] = "store" /\ exam["main"].addr = a /\ pc'["main"] = "iter_next")
             => ~(should_analyze_token(a))']_vars

\* C9: every completed legitimacy check is recorded: once
\* examine_token_contract has returned for address A and the flow that called
\* it has moved on, analyzed_tokens[A] exists with is_safe equal to the
\* returned outcome.
C9_EveryCheckRecorded ==
    \A a \in Addrs :
        (checked[a] # "none" /\ \A t \in Threads : exam[t].addr # a)
           => /\ a \in DOMAIN analyzed_tokens
              /\ analyzed_tokens[a].is_safe = (checked[a] = "confirmed")

\* C10: a call of examine_token_contract that returns after a "too new"
\* answer has called the endpoint max_retries times.
C10_TooNewRetried ==
    \A t \in Threads : exam[t].resp = "toonew" => exam[t].calls = max_retries

\* C11: a non-200 response, a response reporting no swap route, or a network
\* error makes examine_token_contract return False (Rejected) after exactly
\* one endpoint call: in the decision loop the result under construction stays
\* unsafe and control goes straight to the store, with no strategy call.
C11_TerminalRejection ==
    \A t \in Threads :
        exam[t].resp \in {"non200", "noroute", "neterror"}
           => /\ exam[t].calls = 1
              /\ ~exam[t].ret
              /\ t = "main" => (pc["main"] = "store" /\ ~analysis_result.is_safe)
              /\ t = "ws" => pc["ws"] = "hn_analyze"

\* C11 witness: the decision loop's check ended on a network error while the
\* websocket thread's check ended on a missing swap route.
C11_Witness ==
    /\ exam["main"].resp = "neterror"
    /\ exam["ws"].resp = "noroute"
    /\ exam["main"].calls = 1
    /\ exam["ws"].calls = 1

\* C12: execute_momentum_trade compares the token's market cap with the
\* configured minimum threshold: above it, it places a buy of position_size of
\* that token at that market cap; otherwise it makes no ledger call.
C12_DecideByThreshold ==
    [][\A t \in Threads :
          (pc[t] = "emt" /\ pc'[t] # "emt")
             => /\ min_market_cap_threshold.defined
                /\ IF cur[t].cap > min_market_cap_threshold.value
                     THEN /\ pc'[t] = "buy_check"
                          /\ trade'[t].coin = cur[t].symbol
                          /\ trade'[t].side = "buy"
                          /\ trade'[t].quantity = position_size
                          /\ trade'[t].price = cur[t].cap
                     ELSE /\ pc'[t] = AfterTrade(t)
                          /\ UNCHANGED tradeVars]_vars

\* C13: a message that is not valid JSON, has an unrecognised type, or is a
\* tokenTrade event without its market-cap field is dropped: on_message
\* returns and market_data, analyzed_tokens and the ledger are unchanged.
C13_MalformedDropped ==
    [][\A m \in Messages \cup MalformedMessages :
          (OnMessageIgnored(m) \/ OnMessageOther(m) \/ HandleTokenTradeNoCap(m))
             => /\ UNCHANGED <<market_data, analyzed_tokens, ledgerVars>>
                /\ pc'["ws"] \in {"recv", "ps_begin"}]_vars

\* C14: the market-state record of every address for which a newToken or
\* tokenTrade event was processed carries the event's price and volume beside
\* its market cap and timestamp, so that the last price of the address can be
\* read from it.
C14_RecordCarriesEventFields ==
    \A i \in DOMAIN market_data :
        /\ {"price", "volume", "last_trade"} \subseteq EntryKeys(market_data[i].v)
        /\ {"market_cap", "market_cap_sol"} \cap EntryKeys(market_data[i].v) # {}

\* C15: a buy is carried out when virtual_balance >= quantity * price, and a
\* buy that is carried out decreases virtual_balance by exactly
\* quantity * price, increases positions[token] by exactly quantity (from 0
\* when absent), sets token_prices[token] to price, and changes no other
\* token's position or purchase price.
C15_BuyApplied ==
    [][LET call == trade["api"]
           before == pre["api"]
       IN /\ (pc["api"] = "buy_check" /\ call.quantity * call.price <= virtual_balance)
                => pc'["api"] = "buy_bal_load"
          /\ (pc["api"] = "buy_price_store" /\ pc'["api"] = "idle")
                => /\ outcome'["api"] = "applied"
                   /\ virtual_balance' = before.balance - call.quantity * call.price
                   /\ OHas(positions', call.coin)
                   /\ OGet(positions', call.coin, 0)
                         = OGet(before.positions, call.coin, 0) + call.quantity
                   /\ call.coin \in DOMAIN token_prices'
                   /\ token_prices'[call.coin] = call.price
                   /\ \A c \in Coins \ {call.coin} :
                         /\ OHas(positions', c) = OHas(before.positions, c)
                         /\ OGet(positions', c, 0) = OGet(before.positions, c, 0)
                         /\ (c \in DOMAIN token_prices') = (c \in DOMAIN before.prices)
                         /\ DictGet(token_prices', c, 0) = DictGet(before.prices, c, 0)]_vars

\* C15 witness: from the initial ledger, buy('X', 2, 0.1) was carried out:
\* the balance is 0.8 and positions['X'] is 2.
C15_Witness ==
    /\ nops = 1
    /\ pc["api"] = "idle"
    /\ outcome["api"] = "applied"
    /\ trade["api"].side = "buy"
    /\ virtual_balance = 80
    /\ positions = <<[k |-> "X", v |-> 20]>>
    /\ token_prices = [c \in {"X"} |-> 1]

\* C16: a sell is carried out when positions[token] >= quantity, and a sell
\* that is carried out increases virtual_balance by exactly quantity * price
\* and decreases positions[token] by quantity; when the resulting quantity is
\* <= 0 the positions entry and the token_prices entry of the token are both
\* removed, and otherwise both are kept.
C16_SellApplied ==
    [][LET call == trade["api"]
           before == pre["api"]
           left == OGet(before.positions, call.coin, 0) - call.quantity
       IN /\ (/\ pc["api"] = "sell_check"
               /\ OHas(positions, call.coin)
               /\ OGet(positions, call.coin, 0) >= call.quantity)
                => pc'["api"] = "sell_balance"
          /\ (pc["api"] = "sell_cleanup" /\ pc'["api"] = "idle")
                => /\ outcome'["api"] = "applied"
                   /\ virtual_balance' = before.balance + call.quantity * call.price
                   /\ IF left <= 0
                        THEN /\ ~OHas(positions', call.coin)
                             /\ call.coin \notin DOMAIN token_prices'
                        ELSE /\ OHas(positions', call.coin)
                             /\ OGet(positions', call.coin, 0) = left
                             /\ call.coin \in DOMAIN token_prices'
                             /\ token_prices'[call.coin] = before.prices[call.coin]]_vars

\* C16 witness: a position bought for 0.1 was sold whole for 0.4: the entry
\* and its purchase price are gone and the balance is 1.3.
C16_Witness ==
    /\ nops = 2
    /\ pc["api"] = "idle"
    /\ outcome["api"] = "applied"
    /\ trade["api"].side = "sell"
    /\ virtual_balance = 130
    /\ positions = <<>>
    /\ token_prices = EmptyDict

\* C17: round trip: in every ledger state between calls, for every token,
\* quantity > 0 and price for which the buy is carried out, the buy followed
\* immediately by the sell of the same token, quantity and price leaves
\* virtual_balance and positions exactly as they were before the buy.
C17_RoundTrip ==
    pc["api"] = "idle" =>
        \A coin \in Coins, quantity \in Quantities, price \in Prices :
            LET op == [coin |-> coin, quantity |-> quantity, price |-> price]
                after == ApplySell(ApplyBuy(Ledger, op), op)
            IN quantity * price <= virtual_balance
                 => /\ after.balance = virtual_balance
                    /\ after.positions = positions

\* C18: in every ledger state between calls, every entry of positions has a
\* quantity strictly greater than zero.
C18_PositionsPositive ==
    pc["api"] = "idle" => \A i \in DOMAIN positions : positions[i].v > 0

\* C19: should_analyze_token(A) returns true exactly when there is no record
\* for A or now - record.timestamp > 300 (so it returns false when the record
\* is exactly 300 s old), and the call changes no state.
C19_StaleExactly ==
    [][answer' # answer
         => /\ answer'.stale = (\/ ~answer'.recorded
                                \/ answer'.at - answer'.timestamp > 300)
            /\ answer'.at = now
            /\ answer'.recorded = (answer'.addr \in DOMAIN analyzed_tokens)
            /\ answer'.recorded => answer'.timestamp = analyzed_tokens[answer'.addr].timestamp
            /\ UNCHANGED <<analyzed_tokens, persisted, market_data, now, ledgerVars>>]_vars

\* C19 witness: a record exactly 300 s old was found fresh.
C19_Witness ==
    /\ answer.asked
    /\ answer.recorded
    /\ answer.at - answer.timestamp = 300
    /\ ~answer.stale

\* C20: no exception stops either flow.  An exception raised while a message
\* is handled (the TypeError of a tokenTrade event without market cap, the
\* RuntimeError of print_stats) ends with on_message returned to the
\* transport; an exception raised inside execute_momentum_trade is caught
\* there and the caller goes on; an exception raised during a pass of the
\* decision loop (the RuntimeError of the iteration or of print_stats) is
\* taken by the except clause of run, whose only continuation is the start of
\* the next iteration.
C20_FlowsSurviveErrors ==
    [][/\ (\E m \in MalformedMessages : HandleTokenTradeNoCap(m)) => pc'["ws"] = "recv"
       /\ \A t \in Threads :
             (pc[t] = "ps_next" /\ pc'[t] # "ps_next" /\ Len(positions) # ps[t].used)
                => pc'[t] = IF t = "ws" THEN "recv" ELSE "except"
       /\ \A t \in Threads :
             (pc[t] = "emt" /\ pc'[t] # "emt"
                /\ MomentumRaises(cur[t], min_market_cap_threshold))
                => pc'[t] = IF t = "ws" THEN "ps_begin" ELSE "store"
       /\ (pc["main"] = "iter_next" /\ pc'["main"] # "iter_next"
              /\ Len(market_data) # it.used)
             => pc'["main"] = "except"
       /\ (pc["main"] = "except" /\ pc'["main"] # "except") => pc'["main"] = "ps_begin"
       /\ \A t \in Threads : pc'[t] \in {"recv", "hn_examine", "hn_analyze", "ht_analyze",
                                          "emt", "ps_begin", "ps_next", "ps_price",
                                          "ps_total", "iter_begin", "iter_next", "examine",
                                          "store", "save", "except", "buy_check",
                                          "buy_bal_load", "buy_bal_store", "buy_pos_load",
                                          "buy_pos_store", "buy_price_store"}]_vars

\* C20 witness: a tokenTrade event without market cap was dropped after its
\* TypeError, an analysis has failed inside execute_momentum_trade and been
\* recorded, and the decision loop is in its except clause after the
\* RuntimeError of its iteration.
C20_Witness ==
    /\ pc["main"] = "except"
    /\ pc["ws"] = "recv"
    /\ \E i \in DOMAIN market_data : market_data[i].v.cap = NoneCap
    /\ \E a \in DOMAIN analyzed_tokens : analyzed_tokens[a].is_safe

\* C21: at the end of every iteration of the run loop, whether it ends after
\* save_cache_to_file or in the except clause, the persisted mapping equals
\* analyzed_tokens.
C21_PersistedAfterEachPass ==
    [][(pc["main"] \in {"save", "except"} /\ pc'["main"] = "ps_begin")
          => persisted' = analyzed_tokens']_vars

\* C22: examine_token_contract is called for an address, on either thread,
\* only when should_analyze_token reports that address stale at that moment.
C22_CheckOnlyWhenStale ==
    [][\A t \in Threads :
          (exam[t] = NoExam /\ exam'[t] # NoExam) => should_analyze_token(exam'[t].addr)]_vars

\* C23: analyzed_tokens[a] is written only by the decision loop after its own
\* examine_token_contract(a) call has returned, and the record written has
\* is_safe true only if that call returned True.
C23_RecordAfterCheck ==
    [][\A a \in Addrs :
          (/\ a \in DOMAIN analyzed_tokens'
           /\ (a \notin DOMAIN analyzed_tokens \/ analyzed_tokens'[a] # analyzed_tokens[a]))
          => /\ exam["main"].addr = a
             /\ exam["main"].calls >= 1
             /\ exam["main"].resp \in Responses
             /\ analyzed_tokens'[a].is_safe => (exam["main"].ret /\ exam["main"].resp = "ok")
             /\ \A b \in DOMAIN analyzed_tokens : b # a => analyzed_tokens'[b] = analyzed_tokens[b]]_vars

\* C23 witness: one address recorded safe after a check that passed, the
\* other recorded unsafe after a check that failed.
C23_Witness ==
    /\ DOMAIN analyzed_tokens = Addrs
    /\ \E a, b \in Addrs :
          /\ analyzed_tokens[a].is_safe /\ checked[a] = "confirmed"
          /\ ~analyzed_tokens[b].is_safe /\ checked[b] = "rejected"

\* C24: in a bot built by __init__ (min_market_cap_threshold never assigned),
\* every call of execute_momentum_trade returns to its caller without entering
\* simulate_trade, and virtual_balance, positions and token_prices keep the
\* values __init__ gave them, on both threads and for every token data.
C24_NoBuyWithoutThreshold ==
    [][/\ \A t \in Threads :
             (pc[t] = "emt" /\ pc'[t] # "emt")
                => /\ ~min_market_cap_threshold.defined
                   /\ pc'[t] = AfterTrade(t)
                   /\ trade'[t] = NoTrade
                   /\ UNCHANGED ledgerVars
       /\ virtual_balance' = InitialBalance
       /\ positions' = <<>>
       /\ token_prices' = EmptyDict]_vars

\* C24 witness: the decision loop has come back from execute_momentum_trade
\* for a confirmed token whose entry carries a market cap, and the ledger is
\* as __init__ left it.
C24_Witness ==
    /\ pc["main"] = "store"
    /\ analysis_result.is_safe
    /\ cur["main"] = NoData
    /\ OHas(market_data, exam["main"].addr)
    /\ OGet(market_data, exam["main"].addr, NoData).market_cap_key
    /\ OGet(market_data, exam["main"].addr, NoData).cap \in Caps
    /\ Len(market_data) = 1
    /\ received = 1
    /\ Ledger = [balance |-> InitialBalance, positions |-> <<>>, prices |-> EmptyDict]

\* C25: with every legitimacy check returning and the decision loop kept
\* scheduled, every address that is in market_data eventually has a record in
\* analyzed_tokens.
C25_EventuallyVetted ==
    \A a \in Addrs : (OHas(market_data, a)) ~> (a \in DOMAIN analyzed_tokens)

\* C26: between simulate_trade calls made one at a time, positions and
\* token_prices have the same keys; when a sell reaches its cleanup the coin's
\* purchase price is there to delete, and no call ends in an exception.
C26_SameKeys ==
    /\ pc["api"] = "idle" => OKeys(positions) = DOMAIN token_prices
    /\ pc["api"] = "sell_cleanup" => trade["api"].coin \in DOMAIN token_prices
    /\ outcome["api"] # "raised"

\* C26 witness: an accepted sell has emptied the only position, and its
\* cleanup has deleted the position and the purchase price.
C26_Witness ==
    /\ pc["api"] = "idle"
    /\ outcome["api"] = "applied"
    /\ trade["api"].side = "sell"
    /\ nops = 2
    /\ positions = <<>>
    /\ token_prices = EmptyDict

====
